---- MODULE Spec2Model ----
(***************************************************************************)
(* rtl_433 (src/src/rtl_433.c): envelope detector, fixed-point low-pass    *)
(* filter, per-protocol PWM demodulator with its bit packet, and the       *)
(* block callback that drives them.                                        *)
(*                                                                         *)
(* Several specifications share the variables below; each drives one part  *)
(* of the program and leaves the rest at its initial value:                *)
(*   SpecBits  the bit-packet primitives called in any order               *)
(*   Spec      pwm_demod, one loop iteration per step, free samples        *)
(*   SpecGap   pwm_demod with the Rubicson limits: pulse, gap, pulse       *)
(*   SpecEnvelope, SpecFilter, SpecCallback, SpecPrint: one function each  *)
(***************************************************************************)
EXTENDS Integers, Sequences, FiniteSets

VARIABLES
    p,        \* struct protocol_state of the instance under study
    sample,   \* the filtered sample the last pwm_demod iteration read
    ev,       \* what the last step did (stderr output and calls made)
    sat,      \* history: which clamp diagnostics the current packet has seen
    quiet,    \* history: length of the current run of samples not above level_limit
    gap,      \* SpecGap: position in the pulse / gap / pulse script
    iq,       \* SpecEnvelope: the block given to envelope_detect and its result
    flt,      \* SpecFilter: lp_xmem, y_buf[-1] and the samples filtered so far
    demod,    \* SpecCallback: struct dm_state
    glob,     \* SpecCallback: the file-scope variables of rtl_433.c
    out,      \* SpecCallback: what left the process (sink, cancel requests)
    call,     \* SpecCallback: the last invocation of rtlsdr_callback
    run,      \* SpecCallback: history of the run (budget given, bytes processed)
    printed   \* SpecPrint: what demod_print_bits_packet last wrote to stderr

demodvars == <<p, sample, ev, sat, quiet, gap>>
cbvars == <<demod, glob, out, call, run>>
vars == <<p, sample, ev, sat, quiet, gap, iq, flt, demod, glob, out, call, run,
          printed>>

----------------------------------------------------------------------------
(* Program constants *)

BITBUF_COLS == 5
BITBUF_ROWS == 12
DEFAULT_LEVEL_LIMIT == 10000
RUBICSON_SHORT == 1744
RUBICSON_LONG == 3500
RUBICSON_RESET == 5000

(* Bounds of the model *)

\* Scaled pwm limits of the instance explored with free samples; pwm_demod
\* reads its limits from the instance and treats them uniformly.
ShortLimit == 3
LongLimit == 5
ResetLimit == 7
\* Longest leading pulse of the pulse / gap / pulse script.
MaxPulseLen == 2

\* Cells of the matrix in which the received frames may carry a 1 bit.
OnePositions == { <<0, 1, 3>>, <<11, 4, 0>> }

----------------------------------------------------------------------------
(* Bit helpers on bytes *)

Pow2(n) == 2 ^ n

BitOf(v, k) == (v \div Pow2(k)) % 2

\* v | (bit << k) on a uint8_t cell, bit in {0, 1}, 0 <= k <= 7
OrBit(v, bit, k) == IF bit = 1 /\ BitOf(v, k) = 0 THEN v + Pow2(k) ELSE v

Rows == 0 .. (BITBUF_ROWS - 1)
Cols == 0 .. (BITBUF_COLS - 1)

ZeroBuffer == [r \in Rows |-> [c \in Cols |-> 0]]

----------------------------------------------------------------------------
(* struct protocol_state and the bit-packet primitives *)

\* calloc'ed protocol_state with its limits set, then demod_reset_bits_packet
protocol_state(short, long, reset) ==
    [ bits_col_idx     |-> 0,
      bits_row_idx     |-> 0,
      bits_bit_col_idx |-> 7,
      bits_buffer      |-> ZeroBuffer,
      pulse_length     |-> 0,
      pulse_count      |-> 0,
      pulse_distance   |-> 0,
      sample_counter   |-> 0,
      start_c          |-> 0,
      short_limit      |-> short,
      long_limit       |-> long,
      reset_limit      |-> reset ]

demod_reset_bits_packet(q) ==
    [q EXCEPT !.bits_buffer = ZeroBuffer,
              !.bits_col_idx = 0,
              !.bits_bit_col_idx = 7,
              !.bits_row_idx = 0]

\* The byte-index clamp of demod_add_bit.
ClampColNever(c) == c
ClampCol(c) == IF c > 4 THEN 4 ELSE c

\* The row-index clamp of demod_next_bits_packet.
ClampRowNever(r) == r
ClampRow(r) == IF r > 11 THEN 11 ELSE r

demod_add_bit(q, bit) ==
    LET w == [q EXCEPT !.bits_buffer[q.bits_row_idx][q.bits_col_idx] =
                           OrBit(@, bit, q.bits_bit_col_idx)]
        d == [w EXCEPT !.bits_bit_col_idx = @ - 1]
    IN  IF d.bits_bit_col_idx < 0
        THEN [d EXCEPT !.bits_bit_col_idx = 7,
                       !.bits_col_idx = ClampCol(@ + 1)]
        ELSE d

\* whether demod_add_bit prints "p->bits_col_idx>4!"
add_bit_diag(q) == q.bits_bit_col_idx - 1 < 0 /\ q.bits_col_idx + 1 > 4

demod_next_bits_packet(q) ==
    [q EXCEPT !.bits_col_idx = 0,
              !.bits_row_idx = ClampRow(@ + 1),
              !.bits_bit_col_idx = 7]

\* whether demod_next_bits_packet prints "p->bits_row_idx>11!"
next_bits_diag(q) == q.bits_row_idx + 1 > 11

Cursor(q) == <<q.bits_row_idx, q.bits_col_idx, q.bits_bit_col_idx>>

----------------------------------------------------------------------------
(* What a step reports: the calls it made and the cell it wrote *)

\* op: the bit-packet call made ("none", "add_bit", "next", "reset"), with the
\* bit and the cell it wrote and the clamps seen before it; print: whether
\* demod_print_bits_packet and demod_reset_bits_packet ran after it.
NoCell == <<-1, -1, -1>>

NoEvent ==
    [ op |-> "none", bit |-> -1, cell |-> NoCell, sat |-> {}, print |-> FALSE ]

Event(op, bit, cell, s, pr) ==
    [ op |-> op, bit |-> bit, cell |-> cell, sat |-> s, print |-> pr ]

\* the clamp diagnostics seen so far in this packet, after one more call
SatAfterAdd(q, s) == IF add_bit_diag(q) THEN s \cup {"col"} ELSE s
SatAfterNext(q, s) == (IF next_bits_diag(q) THEN s \cup {"row"} ELSE s) \ {"col"}

\* frames carry 1 bits only in OnePositions
MayWrite(q, bit) == bit = 1 => Cursor(q) \in OnePositions

\* the script of SpecGap: lead samples of the first pulse, n samples of the
\* gap, whether a reset-and-print ran during the gap
NoGap == [ phase |-> "off", lead |-> 0, n |-> 0, reset |-> FALSE ]

\* SpecEnvelope before a block is given
NoIQ == [ buf |-> <<>>, decimate |-> 0, out |-> <<>>, done |-> FALSE ]

\* the filter state of main before any block: lp_xmem = {0} and the
\* memset filter_buffer, with nothing filtered yet
NoFilter == [ xmem |-> 0, yhist |-> 0, xs |-> <<>>, ys |-> <<>>, calls |-> 0 ]

\* the specifications that never call rtlsdr_callback
\* nothing printed yet
NoPrint == <<>>

NoCallback ==
    /\ demod = <<>>
    /\ glob = <<>>
    /\ out = <<>>
    /\ call = <<>>
    /\ run = <<>>

----------------------------------------------------------------------------
(* SpecBits: the three primitives, called in any order *)

InitBits ==
    /\ p = protocol_state(ShortLimit, LongLimit, ResetLimit)
    /\ sample = 0
    /\ ev = NoEvent
    /\ sat = {}
    /\ quiet = 0
    /\ gap = NoGap
    /\ iq = NoIQ
    /\ flt = NoFilter
    /\ printed = NoPrint
    /\ NoCallback

AddBit(bit) ==
    /\ MayWrite(p, bit)
    /\ p' = demod_add_bit(p, bit)
    /\ ev' = Event("add_bit", bit, Cursor(p), sat, FALSE)
    /\ sat' = SatAfterAdd(p, sat)
    /\ UNCHANGED <<sample, quiet, gap, iq, flt, cbvars, printed>>

NextBitsPacket ==
    /\ p' = demod_next_bits_packet(p)
    /\ ev' = Event("next", -1, NoCell, sat, FALSE)
    /\ sat' = SatAfterNext(p, sat)
    /\ UNCHANGED <<sample, quiet, gap, iq, flt, cbvars, printed>>

ResetBitsPacket ==
    /\ p' = demod_reset_bits_packet(p)
    /\ ev' = Event("reset", -1, NoCell, sat, FALSE)
    /\ sat' = {}
    /\ UNCHANGED <<sample, quiet, gap, iq, flt, cbvars, printed>>

NextBits ==
    \/ \E bit \in {0, 1} : AddBit(bit)
    \/ NextBitsPacket
    \/ ResetBitsPacket

SpecBits == InitBits /\ [][NextBits]_vars

----------------------------------------------------------------------------
(* C1: whenever a bit is written the cell is inside the 12x5 matrix and the
   bit index is 0..7, the cursor stays within rows 0..11, bytes 0..4, bits
   0..7, and after a clamp diagnostic the appends of that row keep targeting
   byte 4 (after a row clamp: row 11). *)
C1_CursorInRange ==
    /\ p.bits_row_idx \in 0 .. 11
    /\ p.bits_col_idx \in 0 .. 4
    /\ p.bits_bit_col_idx \in 0 .. 7
    /\ ev.op = "add_bit" =>
          /\ ev.cell[1] \in 0 .. 11
          /\ ev.cell[2] \in 0 .. 4
          /\ ev.cell[3] \in 0 .. 7
          /\ ("col" \in ev.sat => ev.cell[2] = 4)
          /\ ("row" \in ev.sat => ev.cell[1] = 11)
    /\ "col" \in sat => p.bits_col_idx = 4
    /\ "row" \in sat => p.bits_row_idx = 11

\* an append made after both clamps were hit
C1_Witness ==
    /\ ev.op = "add_bit"
    /\ ev.sat = {"col", "row"}
    /\ ev.cell = <<11, 4, 0>>
    /\ ev.bit = 1

----------------------------------------------------------------------------
(* pwm_demod: one iteration of its loop over the filtered block *)

LevelLimit == DEFAULT_LEVEL_LIMIT

\* a sample below, at and above demod->level_limit
SampleValues == { LevelLimit - 1, LevelLimit, LevelLimit + 1 }

\* if (buf[i] > demod->level_limit)
EnterPulse(q, s, level) ==
    IF s > level THEN [q EXCEPT !.pulse_count = 1, !.start_c = 1] ELSE q

\* if (p->pulse_count && (buf[i] < demod->level_limit))
EnterGap(q, s, level) ==
    IF q.pulse_count # 0 /\ s < level
    THEN [q EXCEPT !.pulse_length = 0,
                   !.pulse_distance = 1,
                   !.sample_counter = 0,
                   !.pulse_count = 0]
    ELSE q

\* if (p->start_c) p->sample_counter++;
CountSample(q) ==
    IF q.start_c # 0 THEN [q EXCEPT !.sample_counter = @ + 1] ELSE q

\* the bands closed at their upper ends
GapClassClosed(q) ==
    IF q.sample_counter <= q.short_limit THEN "bit0"
    ELSE IF q.sample_counter <= q.long_limit THEN "bit1"
    ELSE "row"

\* the band of the gap counter: "bit0", "bit1" or "row"
GapClass(q) ==
    IF q.sample_counter < q.short_limit THEN "bit0"
    ELSE IF q.sample_counter < q.long_limit THEN "bit1"
    ELSE "row"

\* if (p->pulse_distance && (buf[i] > demod->level_limit)) { ... }
ClassifyGap(q, s, level) ==
    IF q.pulse_distance # 0 /\ s > level
    THEN LET k == GapClass(q)
             n == CASE k = "bit0" -> demod_add_bit(q, 0)
                    [] k = "bit1" -> demod_add_bit(q, 1)
                    [] OTHER -> [demod_next_bits_packet(q) EXCEPT
                                     !.pulse_count = 0,
                                     !.sample_counter = 0]
         IN  [ q    |-> [n EXCEPT !.pulse_distance = 0],
               op   |-> IF k = "row" THEN "next" ELSE "add_bit",
               bit  |-> CASE k = "bit0" -> 0 [] k = "bit1" -> 1 [] OTHER -> -1,
               cell |-> IF k = "row" THEN NoCell ELSE Cursor(q),
               diag |-> IF k = "row" THEN next_bits_diag(q) ELSE add_bit_diag(q) ]
    ELSE [ q |-> q, op |-> "none", bit |-> -1, cell |-> NoCell, diag |-> FALSE ]

\* if (p->sample_counter > p->reset_limit)
ResetFires(q) == q.sample_counter > q.reset_limit

\* ... { start_c = 0; sample_counter = 0; pulse_distance = 0; print; reset }
ResetCheck(q) ==
    IF ResetFires(q)
    THEN demod_reset_bits_packet([q EXCEPT !.start_c = 0,
                                           !.sample_counter = 0,
                                           !.pulse_distance = 0])
    ELSE q

\* The loop body with the gap classified before the sample is counted.
pwm_demod_iter_CountLast(q, s, level) ==
    LET g == ClassifyGap(EnterGap(EnterPulse(q, s, level), s, level), s, level)
        c == CountSample(g.q)
    IN  [ q |-> ResetCheck(c), op |-> g.op, bit |-> g.bit, cell |-> g.cell,
          diag |-> g.diag, print |-> ResetFires(c) ]

\* The loop body with the reset test accepting equality.
pwm_demod_iter_ResetAtLimit(q, s, level) ==
    LET c == CountSample(EnterGap(EnterPulse(q, s, level), s, level))
        g == ClassifyGap(c, s, level)
        f == g.q.sample_counter >= g.q.reset_limit
    IN  [ q |-> IF f THEN demod_reset_bits_packet(
                              [g.q EXCEPT !.start_c = 0,
                                          !.sample_counter = 0,
                                          !.pulse_distance = 0])
                ELSE g.q,
          op |-> g.op, bit |-> g.bit, cell |-> g.cell,
          diag |-> g.diag, print |-> f ]

\* The loop body with the threshold tests accepting equality.
pwm_demod_iter_NotStrict(q, s, level) ==
    LET c == CountSample(EnterGap(EnterPulse(q, s + 1, level), s - 1, level))
        g == ClassifyGap(c, s + 1, level)
    IN  [ q |-> ResetCheck(g.q), op |-> g.op, bit |-> g.bit, cell |-> g.cell,
          diag |-> g.diag, print |-> ResetFires(g.q) ]

\* The body of the for loop of pwm_demod on sample s: the new instance state
\* and what the iteration did.
pwm_demod_iter(q, s, level) ==
    LET c == CountSample(EnterGap(EnterPulse(q, s, level), s, level))
        g == ClassifyGap(c, s, level)
    IN  [ q |-> ResetCheck(g.q), op |-> g.op, bit |-> g.bit, cell |-> g.cell,
          diag |-> g.diag, print |-> ResetFires(g.q) ]

\* the clamp diagnostics of the packet after an iteration
SatAfterIter(r, s) ==
    IF r.print THEN {}
    ELSE CASE r.op = "add_bit" -> (IF r.diag THEN s \cup {"col"} ELSE s)
           [] r.op = "next" -> (IF r.diag THEN s \cup {"row"} ELSE s) \ {"col"}
           [] OTHER -> s

Min(a, b) == IF a < b THEN a ELSE b

\* the run of samples not above the level, counted up to reset_limit + 2
QuietAfter(n, s, q) ==
    IF s > LevelLimit THEN 0 ELSE Min(n + 1, q.reset_limit + 2)

----------------------------------------------------------------------------
(* Spec: pwm_demod fed any stream of samples, one iteration per step *)

Init ==
    /\ p = protocol_state(ShortLimit, LongLimit, ResetLimit)
    /\ sample = 0
    /\ ev = NoEvent
    /\ sat = {}
    /\ quiet = 0
    /\ gap = NoGap
    /\ iq = NoIQ
    /\ flt = NoFilter
    /\ printed = NoPrint
    /\ NoCallback

PwmDemodSample(s) ==
    LET r == pwm_demod_iter(p, s, LevelLimit)
    IN  /\ r.bit = 1 => r.cell \in OnePositions
        /\ p' = r.q
        /\ sample' = s
        /\ ev' = Event(r.op, r.bit, r.cell, sat, r.print)
        /\ sat' = SatAfterIter(r, sat)
        /\ quiet' = QuietAfter(quiet, s, p)
        /\ UNCHANGED <<gap, iq, flt, cbvars, printed>>

Next == \E s \in SampleValues : PwmDemodSample(s)

Spec == Init /\ [][Next]_vars

----------------------------------------------------------------------------
(* C3 as stated: on a sample equal to level_limit, pulse_count and
   pulse_distance keep their values and no bit is appended and no row is
   advanced. *)
C3_Original ==
    [][ sample' = LevelLimit =>
          /\ p'.pulse_count = p.pulse_count
          /\ p'.pulse_distance = p.pulse_distance
          /\ ev'.op = "none" ]_vars

(* C3 amended: on a sample equal to level_limit, pulse_count keeps its value,
   no bit is appended and no row is advanced; pulse_distance keeps its value
   unless the sample is the one whose count exceeds reset_limit, where the
   reset clears it. *)
C3_EqualHoldsState ==
    [][ sample' = LevelLimit =>
          /\ p'.pulse_count = p.pulse_count
          /\ ev'.op = "none"
          /\ p'.bits_buffer = p.bits_buffer \/ ev'.print
          /\ IF ev'.print
             THEN p'.pulse_distance = 0 /\ p.sample_counter = p.reset_limit
             ELSE p'.pulse_distance = p.pulse_distance ]_vars

\* a sample equal to level_limit read inside a pulse and inside a gap
C3_Witness ==
    /\ sample = LevelLimit
    /\ p.pulse_distance = 1
    /\ p.sample_counter > 1
    /\ ~ev.print

\* a gap whose length so far equals reset_limit
InGapAtLimit(q) ==
    /\ q.start_c = 1
    /\ q.pulse_distance = 1
    /\ q.pulse_count = 0
    /\ q.sample_counter = q.reset_limit

(* C4 as stated: a gap whose length equals reset_limit has not triggered the
   reset, the next counted sample does, and no reset happens while
   sample_counter <= reset_limit. *)
C4_Original ==
    [][ /\ (InGapAtLimit(p) => ~ev.print /\ ev'.print)
        /\ (ev'.print => p.sample_counter = p.reset_limit) ]_vars

\* the sample ends a gap (its classification runs) or enters one
EndsGap(q, s) == q.pulse_distance = 1 /\ s > LevelLimit
EntersGap(q, s) == q.pulse_count = 1 /\ s < LevelLimit

\* the sample is counted on top of the counter of the state before it
CountedOn(q, s) == q.start_c = 1 /\ ~EndsGap(q, s) /\ ~EntersGap(q, s)

(* C4 amended: a reset-and-print fires only on the sample that takes
   sample_counter from reset_limit to reset_limit + 1; a gap whose length
   equals reset_limit has not fired it; the next sample fires it unless that
   sample is above level_limit, which ends the gap as a row advance that
   zeroes the counter; between samples sample_counter <= reset_limit. *)
C4_ResetBoundary ==
    [][ /\ (ev'.print => (p.start_c = 1 /\ p.sample_counter = p.reset_limit))
        /\ (p.sample_counter < p.reset_limit => ~ev'.print)
        /\ (InGapAtLimit(p) => ~ev.print)
        /\ ((InGapAtLimit(p) /\ sample' <= LevelLimit) => ev'.print)
        /\ ((InGapAtLimit(p) /\ sample' > LevelLimit) =>
                (~ev'.print /\ ev'.op = "next"))
        /\ ((CountedOn(p, sample') /\ p.sample_counter = p.reset_limit) =>
                ev'.print)
        /\ p'.sample_counter <= p'.reset_limit ]_vars

\* the reset fired by the sample after a gap of exactly reset_limit samples
C4_Witness ==
    /\ ev.print
    /\ quiet = p.reset_limit + 1
    /\ sample = LevelLimit - 1
    /\ p.pulse_count = 0

(* C19: on a sample above level_limit with pulse_distance = 1 exactly one of
   three things happens by the counter c used for the classification (the
   counter before the sample plus one): c < short_limit appends bit 0;
   short_limit <= c < long_limit appends bit 1; c >= long_limit advances the
   row and zeroes sample_counter and pulse_count. pulse_distance is 0
   afterwards in all three; a sample above level_limit with
   pulse_distance = 0 appends nothing. *)
C19_ClassificationBands ==
    [][ LET c == p.sample_counter + 1
            above == sample' > LevelLimit
        IN  /\ (above /\ p.pulse_distance = 1) =>
                  /\ (c < p.short_limit) =>
                        (ev'.op = "add_bit" /\ ev'.bit = 0)
                  /\ (c >= p.short_limit /\ c < p.long_limit) =>
                        (ev'.op = "add_bit" /\ ev'.bit = 1)
                  /\ (c >= p.long_limit) =>
                        (ev'.op = "next" /\ p'.sample_counter = 0
                                         /\ p'.pulse_count = 0)
                  /\ (c < p.long_limit) => p'.sample_counter = c
                  /\ p'.pulse_distance = 0
            /\ (above /\ p.pulse_distance = 0) =>
                  /\ ev'.op = "none"
                  /\ ~ev'.print =>
                        (p'.bits_buffer = p.bits_buffer /\ Cursor(p') = Cursor(p))
      ]_vars

\* a gap that ended at the last counter value of the bit 1 band
C19_Witness ==
    /\ sample > LevelLimit
    /\ ev.op = "add_bit"
    /\ ev.bit = 1
    /\ p.sample_counter = p.long_limit - 1
    /\ p.pulse_distance = 0

(* C5: when pwm_demod resets, all demod state is reset (pulse_count,
   pulse_distance, sample_counter, start_c all 0), every byte of the matrix
   is 0 and the cursor is (row 0, byte 0, bit 7). *)
C5_ResetClearsAll ==
    ev.print =>
        /\ p.pulse_count = 0
        /\ p.pulse_distance = 0
        /\ p.sample_counter = 0
        /\ p.start_c = 0
        /\ p.bits_buffer = ZeroBuffer
        /\ Cursor(p) = <<0, 0, 7>>

(* C6: every decode-and-print is immediately preceded by more than
   reset_limit consecutive samples that are not above level_limit. *)
C6_PrintOnlyAfterSilence ==
    ev.print => quiet > p.reset_limit

----------------------------------------------------------------------------
(* SpecGap: the Rubicson instance of main fed a pulse, a gap of samples
   below level_limit, and the first sample of the next pulse *)

InitGap ==
    /\ p = protocol_state(RUBICSON_SHORT, RUBICSON_LONG, RUBICSON_RESET)
    /\ sample = 0
    /\ ev = NoEvent
    /\ sat = {}
    /\ quiet = 0
    /\ gap = [ phase |-> "pulse", lead |-> 0, n |-> 0, reset |-> FALSE ]
    /\ iq = NoIQ
    /\ flt = NoFilter
    /\ printed = NoPrint
    /\ NoCallback

\* one iteration of pwm_demod on s, as a step of the script
GapFeed(s, g) ==
    LET r == pwm_demod_iter(p, s, LevelLimit)
    IN  /\ p' = r.q
        /\ sample' = s
        /\ ev' = Event(r.op, r.bit, r.cell, sat, r.print)
        /\ sat' = SatAfterIter(r, sat)
        /\ quiet' = QuietAfter(quiet, s, p)
        /\ gap' = [g EXCEPT !.reset = gap.reset \/ r.print]
        /\ UNCHANGED <<iq, flt, cbvars, printed>>

GapLead ==
    /\ gap.phase = "pulse"
    /\ gap.lead < MaxPulseLen
    /\ GapFeed(LevelLimit + 1, [gap EXCEPT !.lead = @ + 1])

GapSilence ==
    /\ \/ gap.phase = "pulse" /\ gap.lead >= 1
       \/ gap.phase = "gap"
    /\ gap.n <= p.reset_limit + 1
    /\ GapFeed(LevelLimit - 1, [gap EXCEPT !.phase = "gap", !.n = @ + 1])

GapClose ==
    /\ gap.phase = "gap"
    /\ GapFeed(LevelLimit + 1, [gap EXCEPT !.phase = "done"])

NextGap == GapLead \/ GapSilence \/ GapClose

SpecGap == InitGap /\ [][NextGap]_vars

\* what the sample closing a gap did
Appended(b) == ev.op = "add_bit" /\ ev.bit = b /\ ~ev.print /\ ~gap.reset
RowAdvanced == ev.op = "next" /\ ~ev.print /\ ~gap.reset
ResetInGap == gap.reset /\ ev.op = "none"

(* C2 as stated: with the Rubicson limits a gap of 1000 samples appends 0,
   1744 appends 1, 3499 appends 1, 3500 advances the row, 5001 resets and
   prints; a gap of exactly short_limit is classified 1 and a gap shorter
   than long_limit never advances the row. *)
C2_Original ==
    gap.phase = "done" =>
        /\ gap.n = 1000 => Appended(0)
        /\ gap.n = 1744 => Appended(1)
        /\ gap.n = 3499 => Appended(1)
        /\ gap.n = 3500 => RowAdvanced
        /\ gap.n = 5001 => ResetInGap
        /\ gap.n = p.short_limit => Appended(1)
        /\ gap.n < p.long_limit => ~RowAdvanced

(* C2 amended: the counter classified for a gap of G samples is G + 1, the
   sample that ends the gap being counted first: 1000 appends 0, 1744 and
   3498 append 1, 3499 and 3500 advance the row, 5001 resets and prints (on
   its 5001st sample); a gap of exactly short_limit is classified 1 and a gap
   shorter than long_limit - 1 never advances the row. *)
C2_GapBands ==
    /\ gap.phase = "gap" => (gap.reset <=> gap.n > p.reset_limit)
    /\ gap.phase = "done" =>
        /\ gap.n + 1 < p.short_limit => Appended(0)
        /\ (p.short_limit <= gap.n + 1 /\ gap.n + 1 < p.long_limit) => Appended(1)
        /\ (p.long_limit <= gap.n + 1 /\ gap.n <= p.reset_limit) => RowAdvanced
        /\ gap.n > p.reset_limit => ResetInGap
        /\ gap.n = 1000 => Appended(0)
        /\ gap.n = 1744 => Appended(1)
        /\ gap.n = 3498 => Appended(1)
        /\ gap.n = 3499 => RowAdvanced
        /\ gap.n = 3500 => RowAdvanced
        /\ gap.n = 5001 => ResetInGap
        /\ gap.n = p.short_limit => Appended(1)
        /\ gap.n < p.long_limit - 1 => ~RowAdvanced

\* the gap of long_limit - 1 samples closed by a pulse
C2_Witness ==
    /\ gap.phase = "done"
    /\ gap.n = 3499
    /\ p.long_limit = 3500
    /\ RowAdvanced
    /\ Cursor(p) = <<1, 0, 7>>

----------------------------------------------------------------------------
(* envelope_detect *)

\* (signed char)(b ^ 0x80) for a byte b: the XOR flips bit 7
XorBias(b) == IF b >= 128 THEN b - 128 ELSE b + 128
SignedChar(b) == IF b >= 128 THEN b - 256 ELSE b

\* the bias correction without the reinterpretation as signed
EnvelopeUnsigned(r, i) == (XorBias(i) * XorBias(i)) + (XorBias(r) * XorBias(r))

\* sample_buffer[op] for the bytes buf[2*i] = r and buf[2*i+1] = i, stored as
\* uint16_t
Envelope(r, i) ==
    LET var_r == SignedChar(XorBias(r))
        var_i == SignedChar(XorBias(i))
    IN  ((var_i * var_i) + (var_r * var_r)) % 65536

\* the number of samples the loop of envelope_detect writes: i = 0, stride,
\* 2*stride, ... while i < len/2
EnvelopeCount(len, decimate) ==
    LET stride == Pow2(decimate)
    IN  ((len \div 2) + stride - 1) \div stride

\* the samples envelope_detect writes to the head of the buffer; buf is the
\* byte block, 1-indexed: buf[2*i] of the code is buf[2*i + 1] here
envelope_detect(buf, len, decimate) ==
    LET stride == Pow2(decimate)
    IN  [ op \in 1 .. EnvelopeCount(len, decimate) |->
              Envelope(buf[2 * ((op - 1) * stride) + 1],
                       buf[2 * ((op - 1) * stride) + 2]) ]

----------------------------------------------------------------------------
(* SpecEnvelope: envelope_detect on every IQ pair *)

Bytes == 0 .. 255

\* the second complex sample of a two-sample block
TailPairs == { <<0, 0>>, <<128, 128>>, <<255, 1>> }

InitEnvelope ==
    /\ p = protocol_state(ShortLimit, LongLimit, ResetLimit)
    /\ sample = 0
    /\ ev = NoEvent
    /\ sat = {}
    /\ quiet = 0
    /\ gap = NoGap
    /\ \E r \in Bytes, i \in Bytes :
          iq = [ buf |-> <<r, i>>, decimate |-> 0, out |-> <<>>, done |-> FALSE ]
    /\ flt = NoFilter
    /\ printed = NoPrint
    /\ NoCallback

\* the source appends one more complex sample to the block
EnvelopeGrow ==
    /\ ~iq.done
    /\ Len(iq.buf) = 2
    /\ iq.buf[1] \in {0, 1, 255}
    /\ \E t \in TailPairs, d \in {0, 1} :
          iq' = [iq EXCEPT !.buf = iq.buf \o t, !.decimate = d]
    /\ UNCHANGED <<demodvars, flt, cbvars, printed>>

EnvelopeDetect ==
    /\ ~iq.done
    /\ iq' = [iq EXCEPT !.out = envelope_detect(iq.buf, Len(iq.buf), iq.decimate),
                        !.done = TRUE]
    /\ UNCHANGED <<demodvars, flt, cbvars, printed>>

NextEnvelope == EnvelopeGrow \/ EnvelopeDetect

SpecEnvelope == InitEnvelope /\ [][NextEnvelope]_vars

(* C9 as stated: for every pair of input bytes the envelope value is in
   [0, 32258]. *)
C9_Original ==
    iq.done => \A k \in 1 .. Len(iq.out) : iq.out[k] \in 0 .. 32258

(* C9 amended: for every pair of input bytes the envelope value is in
   [0, 32768]; it exceeds 32258 only when an input byte is 0 (bias-corrected
   to -128), and both bytes 0 give 32768. *)
C9_EnvelopeRange ==
    iq.done =>
        /\ Len(iq.out) = EnvelopeCount(Len(iq.buf), iq.decimate)
        /\ \A k \in 1 .. Len(iq.out) :
              LET r == iq.buf[2 * ((k - 1) * Pow2(iq.decimate)) + 1]
                  i == iq.buf[2 * ((k - 1) * Pow2(iq.decimate)) + 2]
              IN  /\ iq.out[k] \in 0 .. 32768
                  /\ (r # 0 /\ i # 0) => iq.out[k] <= 32258
                  /\ (r = 0 /\ i = 0) => iq.out[k] = 32768
                  /\ (r = 255 /\ i = 255) => iq.out[k] = 32258
                  /\ (r = 128 /\ i = 128) => iq.out[k] = 0

\* the envelope of the pair of bytes 0x00, 0x00
C9_Witness ==
    /\ iq.done
    /\ iq.buf = <<0, 0>>
    /\ iq.out = <<32768>>

----------------------------------------------------------------------------
(* low_pass_filter *)

FILTER_ORDER == 1
F_SCALE == 15
\* a[1] = FIX(0.96907), b[0] = b[1] = FIX(0.015466), FIX(x) = (int)(x * 32768)
A1 == 31754
B0 == 506
B1 == 506

\* v >> k on a signed int (arithmetic shift)
ShiftRight(v, k) == v \div Pow2(k)

\* the value stored in an int16_t
Int16(v) == ((v + 32768) % 65536) - 32768

\* the same arithmetic with the coefficients rounded to nearest (31755, 507)
FilterSampleRounded(yprev, x, xprev) ==
    Int16(ShiftRight(ShiftRight((A1 + 1) * yprev, 1) + ShiftRight((B0 + 1) * x, 1)
                         + ShiftRight((B1 + 1) * xprev, 1),
                     F_SCALE - 1))

\* the sum of the three unshifted products
AccumulatorNoPreShift(yprev, x, xprev) ==
    (A1 * yprev) + (B0 * x) + (B1 * xprev)

\* the int sum (a[1]*y_buf[i-1]>>1) + (b[0]*x_buf[i]>>1) + (b[1]*x_buf[i-1]>>1)
Accumulator(yprev, x, xprev) ==
    ShiftRight(A1 * yprev, 1) + ShiftRight(B0 * x, 1) + ShiftRight(B1 * xprev, 1)

\* y_buf[i] from y_buf[i-1], x_buf[i] and x_buf[i-1]
FilterSample(yprev, x, xprev) ==
    Int16(ShiftRight(Accumulator(yprev, x, xprev), F_SCALE - 1))

\* y_buf[0 .. len-1] as a sequence, from the history (xmem, yhist)
RECURSIVE FilterOutputs(_, _, _, _)
FilterOutputs(x_buf, len, xmem, yhist) ==
    IF len = 0 THEN <<>>
    ELSE IF len = 1 THEN << FilterSample(yhist, x_buf[1], xmem) >>
    ELSE LET ys == FilterOutputs(x_buf, len - 1, xmem, yhist)
         IN  Append(ys, FilterSample(ys[len - 1], x_buf[len], x_buf[len - 1]))

\* the index of the sample the two memcpy calls save: len - 1 - FILTER_ORDER
SavedIndexLast(len) == len - 1
SavedIndex(len) == len - 1 - FILTER_ORDER

\* the indices of x_buf that low_pass_filter reads, and of y_buf that it
\* reads or writes, for the length len; the saved index len-1-FILTER_ORDER is
\* computed unsigned, a negative value here stands for the wrapped one
XIndices(len) == {0} \cup { i : i \in 1 .. (len - 1) } \cup { i - 1 : i \in 1 .. (len - 1) }
                     \cup { SavedIndex(len) }
YIndices(len) == {-1, 0} \cup { i : i \in 1 .. (len - 1) } \cup { i - 1 : i \in 1 .. (len - 1) }
                     \cup { SavedIndex(len) } \cup { -FILTER_ORDER }

\* low_pass_filter(x_buf, y_buf, len): the outputs y_buf[0 ..], and the
\* history it leaves in lp_xmem[0] and y_buf[-1]; x_buf[k] of the code is
\* x_buf[k + 1] here. y_buf[0] is written even when len = 0. With len < 2
\* the saved index is outside the block and the read yields junk. wrap: the
\* wrapped unsigned index addresses the element before the buffer (pointers
\* as wide as the index), so that for len = 1 y_buf[-1] is copied onto
\* itself; otherwise it addresses memory far behind both buffers.
low_pass_filter(x_buf, len, xmem, yhist, junk, wrap) ==
    LET ys  == IF len >= 1 THEN FilterOutputs(x_buf, len, xmem, yhist)
               ELSE << FilterSample(yhist, x_buf[1], xmem) >>
        idx == SavedIndex(len)
        in  == idx >= 0 /\ idx < len
    IN  [ ys    |-> ys,
          xmem  |-> IF in THEN x_buf[idx + 1] ELSE junk,
          yhist |-> IF in THEN ys[idx + 1]
                    ELSE IF idx = -1 /\ wrap THEN yhist ELSE junk,
          oob   |-> IF in THEN {}
                    ELSE IF idx = -1 /\ wrap THEN { "x_buf" }
                    ELSE { "x_buf", "y_buf" },
          xidx  |-> XIndices(len),
          yidx  |-> YIndices(len) ]

----------------------------------------------------------------------------
(* SpecFilter: low_pass_filter called on consecutive blocks *)

\* Longest block and number of calls explored.
MaxBlockLen == 3
MaxFilterCalls == 2

\* envelope values of the blocks: silence and the strongest carrier
XValues == { 0, 32768 }

XBlocks == UNION { [1 .. n -> XValues] : n \in 2 .. MaxBlockLen }

InitFilter ==
    /\ p = protocol_state(ShortLimit, LongLimit, ResetLimit)
    /\ sample = 0
    /\ ev = NoEvent
    /\ sat = {}
    /\ quiet = 0
    /\ gap = NoGap
    /\ iq = NoIQ
    /\ flt = NoFilter
    /\ printed = NoPrint
    /\ NoCallback

LowPassFilter(x_buf) ==
    LET r == low_pass_filter(x_buf, Len(x_buf), flt.xmem, flt.yhist, 0, TRUE)
    IN  /\ flt.calls < MaxFilterCalls
        /\ flt' = [ xmem  |-> r.xmem,
                    yhist |-> r.yhist,
                    xs    |-> flt.xs \o x_buf,
                    ys    |-> flt.ys \o r.ys,
                    calls |-> flt.calls + 1 ]
        /\ UNCHANGED <<demodvars, iq, cbvars, printed>>

NextFilter == \E x_buf \in XBlocks : LowPassFilter(x_buf)

SpecFilter == InitFilter /\ [][NextFilter]_vars

(* C8: filtering two consecutive blocks with the carried history gives the
   same output samples as filtering their concatenation in one call, the
   history carried being the last input and the last output sample of the
   previous call. *)
C8_FilterContinuity ==
    flt.calls >= 1 =>
        /\ flt.ys = FilterOutputs(flt.xs, Len(flt.xs), 0, 0)
        /\ flt.xmem = flt.xs[Len(flt.xs)]
        /\ flt.yhist = flt.ys[Len(flt.ys)]

----------------------------------------------------------------------------
(* SpecSample: low_pass_filter once on a two-sample block, from any history *)

\* envelope values and outputs around the ends of their ranges, odd and even
XWide == { 0, 1, 2, 3, 31, 127, 16383, 16384, 32257, 32258, 32767, 32768 }
YWide == { -32768, -32767, -16385, -3, -2, -1, 0, 1, 2, 3, 16383, 32767 }

InitSample ==
    /\ p = protocol_state(ShortLimit, LongLimit, ResetLimit)
    /\ sample = 0
    /\ ev = NoEvent
    /\ sat = {}
    /\ quiet = 0
    /\ gap = NoGap
    /\ iq = NoIQ
    /\ \E x \in XWide, y \in YWide :
          flt = [ xmem |-> x, yhist |-> y, xs |-> <<>>, ys |-> <<>>, calls |-> 0,
                  xmem0 |-> x, yhist0 |-> y ]
    /\ printed = NoPrint
    /\ NoCallback

FilterBlock(x_buf) ==
    LET r == low_pass_filter(x_buf, Len(x_buf), flt.xmem, flt.yhist, 0, TRUE)
    IN  /\ flt.calls = 0
        /\ flt' = [ xmem  |-> r.xmem,
                    yhist |-> r.yhist,
                    xs    |-> x_buf,
                    ys    |-> r.ys,
                    calls |-> 1,
                    xmem0 |-> flt.xmem,
                    yhist0 |-> flt.yhist ]
        /\ UNCHANGED <<demodvars, iq, cbvars, printed>>

NextSample == \E a \in XWide, b \in XWide : FilterBlock(<< a, b >>)

SpecSample == InitSample /\ [][NextSample]_vars

\* the wide accumulator: the three unshifted products summed, then >> 15
WideSample(yprev, x, xprev) ==
    Int16(ShiftRight((A1 * yprev) + (B0 * x) + (B1 * xprev), F_SCALE))

(* C17: each output sample of low_pass_filter (products shifted right by 1
   before the sum, sum shifted right by 14) equals the wide accumulator's
   (unshifted products summed, sum shifted right by 15), for envelope inputs
   in 0..32768 and any signed 16-bit previous output. *)
C17_NarrowEqualsWide ==
    flt.calls = 1 =>
        /\ flt.ys[1] = WideSample(flt.yhist0, flt.xs[1], flt.xmem0)
        /\ flt.ys[2] = WideSample(flt.ys[1], flt.xs[2], flt.xs[1])

\* odd inputs, negative history: the pre-shifts floor three products
C17_Witness ==
    /\ flt.calls = 1
    /\ flt.yhist0 = -32767
    /\ flt.xmem0 = 32767
    /\ flt.xs = << 1, 32257 >>
    /\ flt.ys[1] < 0

----------------------------------------------------------------------------
(* pwm_demod and pwm_analyze over a block *)

\* pwm_demod(demod, p, buf, len): the instance after the block and, in order,
\* what it did; buf[k] of the code is buf[k + 1] here
RECURSIVE pwm_demod_from(_, _, _, _, _, _)
pwm_demod_from(q, log, buf, i, len, level) ==
    IF i > len THEN [ q |-> q, log |-> log ]
    ELSE LET r == pwm_demod_iter(q, buf[i], level)
             c == IF r.op = "none" THEN <<>> ELSE << <<r.op, r.bit>> >>
             d == IF r.print THEN << <<"print", -1>> >> ELSE <<>>
         IN  pwm_demod_from(r.q, log \o c \o d, buf, i + 1, len, level)

pwm_demod(q, buf, len, level) == pwm_demod_from(q, <<>>, buf, 1, len, level)

\* the other protocol instance of struct dm_state
Other(name) == IF name = "prologue" THEN "rubicson" ELSE "prologue"

\* pwm_demod(demod, demod->name, buf, len) as a step on struct dm_state: it
\* writes through its protocol_state pointer only
pwm_demod_of_SharedCounter(d, name, buf, len) ==
    LET r == pwm_demod(d[name], buf, len, d.level_limit)
    IN  [ d   |-> [d EXCEPT ![name] = r.q,
                            ![Other(name)].sample_counter = r.q.sample_counter],
          log |-> r.log ]
pwm_demod_of(d, name, buf, len) ==
    LET r == pwm_demod(d[name], buf, len, d.level_limit)
    IN  [ d |-> [d EXCEPT ![name] = r.q], log |-> r.log ]

\* counter, print, print2, pulses_found, pulse_start, pulse_end, pulse_avg
analyzer_state ==
    [ counter |-> 0, print |-> 1, print2 |-> 0, pulses_found |-> 0,
      pulse_start |-> 0, pulse_end |-> 0, pulse_avg |-> 0 ]

\* the loop body with the pulse_end test not latched on print2
pwm_analyze_iter_NoLatch(g, s, level) ==
    LET start == s > level /\ g.print # 0
        g1 == IF start
              THEN [g EXCEPT !.pulses_found = @ + 1,
                             !.pulse_start = g.counter,
                             !.print = 0,
                             !.print2 = 1]
              ELSE g
        g2 == [g1 EXCEPT !.counter = @ + 1]
        end == s < level
        g3 == IF end
              THEN [g2 EXCEPT !.pulse_avg = @ + (g2.counter - g2.pulse_start),
                              !.pulse_end = g2.counter,
                              !.print2 = 0]
              ELSE g2
        g4 == IF s < level THEN [g3 EXCEPT !.print = 1] ELSE g3
    IN  [ g   |-> g4,
          log |-> (IF start THEN << "pulse_start" >> ELSE <<>>)
                      \o (IF end THEN << "pulse_end" >> ELSE <<>>) ]

\* the body of the for loop of pwm_analyze on sample s
pwm_analyze_iter(g, s, level) ==
    LET start == s > level /\ g.print # 0
        g1 == IF start
              THEN [g EXCEPT !.pulses_found = @ + 1,
                             !.pulse_start = g.counter,
                             !.print = 0,
                             !.print2 = 1]
              ELSE g
        g2 == [g1 EXCEPT !.counter = @ + 1]
        end == s < level /\ g2.print2 # 0
        g3 == IF end
              THEN [g2 EXCEPT !.pulse_avg = @ + (g2.counter - g2.pulse_start),
                              !.pulse_end = g2.counter,
                              !.print2 = 0]
              ELSE g2
        g4 == IF s < level THEN [g3 EXCEPT !.print = 1] ELSE g3
    IN  [ g   |-> g4,
          log |-> (IF start THEN << "pulse_start" >> ELSE <<>>)
                      \o (IF end THEN << "pulse_end" >> ELSE <<>>) ]

RECURSIVE pwm_analyze_from(_, _, _, _, _, _)
pwm_analyze_from(g, log, buf, i, len, level) ==
    IF i > len THEN [ g |-> g, log |-> log ]
    ELSE LET r == pwm_analyze_iter(g, buf[i], level)
         IN  pwm_analyze_from(r.g, log \o r.log, buf, i + 1, len, level)

pwm_analyze(g, buf, len, level) == pwm_analyze_from(g, <<>>, buf, 1, len, level)

----------------------------------------------------------------------------
(* rtlsdr_callback *)

\* Largest decimation exponent (-c) and number of blocks delivered.
MaxDecimation == 1
MaxBlocks == 3

\* block lengths in bytes the source delivers
BlockBytes == { 4, 8 }
\* -n: complex samples to read, 0 for no budget
Budgets == { 0, 1, 4 }
\* -l: the level, chosen so that the filtered carrier crosses it
CallbackLevels == { 3700 }
\* what a read outside the block returns
JunkValues == { 0, 77 }

SetMax(S) == CHOOSE m \in S : \A x \in S : x <= m

\* samples of f_buf the model keeps: the longest block's len/2
FBufLen == SetMax({ len \div 2 : len \in BlockBytes })

\* a block of len bytes: silence, carrier, carrier after silence, silence
\* after carrier (IQ bytes 0x80 0x80 have envelope 0, 0x00 0x00 have 32768)
Patterns == { "low", "high", "rise", "fall" }
BlockOf(pat, len) ==
    [ k \in 1 .. len |->
        LET first == k <= 2 * ((len \div 2) \div 2)
        IN  CASE pat = "low" -> 128
              [] pat = "high" -> 0
              [] pat = "rise" -> (IF first THEN 128 ELSE 0)
              [] OTHER -> (IF first THEN 0 ELSE 128) ]

\* len >> decimate as computed on the unsigned len
ShiftLen(len, k) == len \div Pow2(k)

\* the filter length the callback passes, and the length it gives the consumer
FilterLen(len, d) == ShiftLen(len, d + 1)
ConsumerLen(len, d) == len \div 2

\* whether the callback returns without touching the block: the outer test
\* fails, or do_exit is already set
SkipsBlockNever(d, g) == ~(d.file # 0 \/ d.save_data = 0)
SkipsBlock(d, g) == ~(d.file # 0 \/ d.save_data = 0) \/ g.do_exit # 0

\* the branch of the callback on demod->analyze
RunsAnalyzer(d) == d.analyze # 0
RunsDemodAlways(d) == TRUE
RunsDemod(d) == ~(d.analyze # 0)

\* whether the block is cut to the remaining budget
Truncates(btr, len) == btr > 0 /\ btr < len

InitCallback ==
    /\ p = protocol_state(ShortLimit, LongLimit, ResetLimit)
    /\ sample = 0
    /\ ev = NoEvent
    /\ sat = {}
    /\ quiet = 0
    /\ gap = NoGap
    /\ iq = NoIQ
    /\ flt = NoFilter
    /\ printed = NoPrint
    /\ \E d \in 0 .. MaxDecimation, a \in {0, 1}, save \in {0, 1},
          n \in Budgets, level \in CallbackLevels :
          /\ demod = [ file |-> save, save_data |-> save,
                       level_limit |-> level, decimation_level |-> d,
                       f_hist |-> 0, f_buf |-> [k \in 1 .. FBufLen |-> 0],
                       analyze |-> a,
                       rubicson |-> protocol_state(ShortLimit, LongLimit, ResetLimit),
                       prologue |-> protocol_state(LongLimit, 2 * LongLimit,
                                                   3 * ResetLimit) ]
          /\ glob = [ do_exit |-> 0, bytes_to_read |-> n * 2,
                      lp_xmem |-> 0, an |-> analyzer_state ]
          /\ run = [ budget |-> n * 2, total |-> 0, blocks |-> 0,
                     short |-> FALSE ]
    /\ out = [ sink |-> 0, cancel |-> FALSE ]
    /\ call = [ len |-> 0, processed |-> FALSE, used |-> 0, n_filter |-> 0,
                n_consumed |-> 0, want |-> 0, written |-> 0, oob |-> {},
                xidx |-> {}, yidx |-> {},
                log |-> <<>>, alog |-> <<>>, sig |-> FALSE ]

\* rtlsdr_callback(buf, len, ctx) on a delivered block; short: whether fwrite
\* writes less than asked; junk: what a read outside the block returns, wrap:
\* where the wrapped index of such a read lands (see low_pass_filter); sig:
\* whether sighandler runs while the block is processed, after the test of
\* do_exit at the top (nothing below that test reads do_exit)
Callback(buf, short, junk, wrap, sig) ==
    LET len0 == Len(buf)
        skip == SkipsBlock(demod, glob)
        cut  == Truncates(glob.bytes_to_read, len0)
        len  == IF cut THEN glob.bytes_to_read ELSE len0
        d    == demod.decimation_level
        sbuf == envelope_detect(buf, len, d)
        nf   == FilterLen(len, d)
        f    == low_pass_filter(sbuf, nf, glob.lp_xmem, demod.f_hist, junk, wrap)
        fb   == [ k \in 1 .. FBufLen |->
                    IF k <= Len(f.ys) THEN f.ys[k] ELSE demod.f_buf[k] ]
        nc   == ConsumerLen(len, d)
        an   == pwm_analyze(glob.an, fb, nc, demod.level_limit)
        pro  == pwm_demod_of(demod, "prologue", fb, nc)
        rub  == pwm_demod_of(pro.d, "rubicson", fb, nc)
        dec  == IF RunsDemod(demod) THEN rub.d ELSE demod
        want == ShiftLen(len, d)
        wr   == IF short THEN 0 ELSE want
    IN  /\ run.blocks < MaxBlocks
        /\ short => demod.save_data # 0
        /\ (short \/ sig) => ~skip
        /\ (junk # 0 \/ ~wrap) => (~skip /\ nf < 2)
        /\ run' = [run EXCEPT !.blocks = @ + 1,
                              !.total = IF skip THEN @ ELSE @ + len,
                              !.short = @ \/ short]
        /\ IF skip
           THEN /\ call' = [call EXCEPT !.len = len0, !.processed = FALSE,
                                        !.log = <<>>, !.alog = <<>>, !.oob = {},
                                        !.xidx = {}, !.yidx = {},
                                        !.sig = FALSE]
                /\ UNCHANGED <<demod, glob, out>>
           ELSE /\ demod' = [dec EXCEPT !.f_hist = f.yhist, !.f_buf = fb]
                /\ glob' = [glob EXCEPT
                                !.do_exit = IF cut \/ sig THEN 1 ELSE @,
                                !.lp_xmem = f.xmem,
                                !.an = IF RunsAnalyzer(demod) THEN an.g ELSE @,
                                !.bytes_to_read = IF @ > 0 THEN @ - len ELSE @]
                /\ out' = [out EXCEPT
                                !.sink = IF demod.save_data # 0 THEN @ + wr ELSE @,
                                !.cancel = @ \/ cut \/ sig
                                             \/ (demod.save_data # 0 /\ wr # want)]
                /\ call' = [ len |-> len0, processed |-> TRUE, used |-> len,
                             n_filter |-> nf, n_consumed |-> nc,
                             want |-> IF demod.save_data # 0 THEN want ELSE 0,
                             written |-> IF demod.save_data # 0 THEN wr ELSE 0,
                             oob |-> f.oob, xidx |-> f.xidx, yidx |-> f.yidx,
                             log |-> IF RunsDemod(demod) THEN pro.log \o rub.log
                                     ELSE <<>>,
                             alog |-> IF RunsAnalyzer(demod) THEN an.log ELSE <<>>,
                             sig |-> sig ]
        /\ UNCHANGED <<demodvars, iq, flt, printed>>

\* sighandler: a signal arrives between two blocks
Sighandler ==
    /\ glob.do_exit = 0
    /\ glob' = [glob EXCEPT !.do_exit = 1]
    /\ out' = [out EXCEPT !.cancel = TRUE]
    /\ UNCHANGED <<demodvars, iq, flt, demod, call, run, printed>>

Deliver ==
    \E len \in BlockBytes, pat \in Patterns, short \in BOOLEAN,
       junk \in JunkValues, wrap \in BOOLEAN, sig \in BOOLEAN :
        Callback(BlockOf(pat, len), short, junk, wrap, sig)

NextCallback == Deliver \/ Sighandler

SpecCallback == InitCallback /\ [][NextCallback]_vars

\* a step of rtlsdr_callback on a delivered block
BlockStep == run'.blocks = run.blocks + 1

(* C11: a block delivered while do_exit is already set changes nothing
   (filter history, both protocols' demod state and bit packet, analyzer
   state, raw sink, byte budget); a do_exit that becomes set while a block is
   processed (by the budget or by sighandler) does not keep that block from
   completing. *)
C11_CancelAtBlockBoundary ==
    [][ /\ (BlockStep /\ glob.do_exit # 0) =>
              (demod' = demod /\ glob' = glob /\ out' = out /\ ~call'.processed)
        /\ (BlockStep /\ glob.do_exit = 0 /\ glob'.do_exit # 0) =>
              /\ call'.processed
              /\ run'.total = run.total + call'.used
              /\ call'.n_consumed = ConsumerLen(call'.used, demod.decimation_level)
              /\ demod.save_data # 0 => call'.want = ShiftLen(call'.used, demod.decimation_level)
      ]_vars

\* a block was delivered and dropped after an earlier one was processed with
\* a signal arriving inside it
C11_Witness ==
    /\ glob.do_exit # 0
    /\ run.blocks >= 2
    /\ ~call.processed
    /\ call.len > 0
    /\ run.total > 0
    /\ run.budget = 0

(* C12: after a block whose write to the raw sink was short, no block
   delivered later is processed. *)
C12_NoBlockAfterShortWrite ==
    [][ (BlockStep /\ run.short) => ~call'.processed ]_vars

(* C16: analyzer mode and decoding exclude each other for a run: with the
   analyze flag set no block changes a protocol instance's demod state or bit
   packet and nothing is decoded or printed; with it clear no block changes
   the analyzer state or emits analyzer output. The flag itself never
   changes. *)
C16_AnalyzeExcludesDecode ==
    [][ BlockStep =>
          /\ demod'.analyze = demod.analyze
          /\ demod.analyze # 0 =>
                /\ demod'.prologue = demod.prologue
                /\ demod'.rubicson = demod.rubicson
                /\ call'.log = <<>>
          /\ demod.analyze = 0 =>
                /\ glob'.an = glob.an
                /\ call'.alog = <<>>
      ]_vars

\* an analyzer run that has found a pulse while both instances are as made
C16_Witness ==
    /\ demod.analyze # 0
    /\ call.processed
    /\ glob.an.pulses_found > 0
    /\ call.alog # <<>>
    /\ demod.rubicson = protocol_state(ShortLimit, LongLimit, ResetLimit)

(* C18: with a raw sink, each processed block whose write is not short puts
   2 bytes per filtered sample into the sink: 2 * (len >> (d+1)) bytes for
   the processed length len, a block cut by the byte budget included. *)
C18_SinkBytesPerSample ==
    (call.processed /\ demod.save_data # 0 /\ call.written = call.want) =>
        call.written = 2 * ShiftLen(call.used, demod.decimation_level + 1)

(* C22: low_pass_filter is memory safe for every length len >= 1 the
   callback passes (budget-cut blocks included): every index it reads lies
   within [0, len-1] of the input block, every index it reads or writes
   within [-1, len-1] of the output buffer, the history-save reads
   included. *)
C22_FilterIndicesInBlock ==
    (call.processed /\ call.n_filter >= 1) =>
        /\ call.xidx \subseteq 0 .. (call.n_filter - 1)
        /\ call.yidx \subseteq -1 .. (call.n_filter - 1)
        /\ call.oob = {}

(* C7: with a byte budget B > 0 the bytes processed by rtlsdr_callback over
   all blocks never exceed B: the block that would exceed it is truncated,
   shutdown is requested and no later block is processed. *)
C7_BudgetNeverExceeded ==
    run.budget > 0 => run.total <= run.budget

(* C10: every processed block of L bytes yields L >> (d+1) filtered samples
   and its consumer is fed exactly those samples, never more than the filter
   produced. *)
C10_ConsumerFedFiltered ==
    call.processed =>
        /\ call.n_filter = ShiftLen(call.used, demod.decimation_level + 1)
        /\ call.n_consumed = call.n_filter

----------------------------------------------------------------------------
(* demod_print_bits_packet *)

\* a & b and a | b on non-negative ints
RECURSIVE BitAnd(_, _)
BitAnd(a, b) ==
    IF a = 0 \/ b = 0 THEN 0
    ELSE (a % 2) * (b % 2) + 2 * BitAnd(a \div 2, b \div 2)

RECURSIVE BitOr(_, _)
BitOr(a, b) ==
    IF a = 0 THEN b
    ELSE IF b = 0 THEN a
    ELSE (IF a % 2 = 1 \/ b % 2 = 1 THEN 1 ELSE 0) + 2 * BitOr(a \div 2, b \div 2)

\* the value of a cast to uint16_t
UInt16(v) == v % 65536

\* a / b and a % b of C for b > 0: the quotient is truncated toward zero
CDiv(a, b) == IF a >= 0 THEN a \div b ELSE -((-a) \div b)
CRem(a, b) == a - b * CDiv(a, b)
Abs(v) == IF v < 0 THEN -v ELSE v

\* "%s%d.%d" of t<0?"-":"", abs(t/10), abs(t%10)
TempText(t) == [ neg |-> t < 0, int |-> Abs(CDiv(t, 10)), frac |-> Abs(CRem(t, 10)) ]

\* "%02x" of a byte, as its two hex digits
Hex2(b) == << b \div 16, b % 16 >>

\* temp: row is bits_buffer[0], row[k] is byte k
RubicsonTempNoSign(row) ==
    ShiftRight(BitOr(UInt16(row[1] * 4096), row[2] * 16), 4)
RubicsonTemp(row) ==
    ShiftRight(Int16(BitOr(UInt16(row[1] * 4096), row[2] * 16)), 4)

\* temp2: row is bits_buffer[1]
PrologueTempLowNibble(row) ==
    ShiftRight(Int16(BitOr(UInt16(row[2] * 4096), row[3] * 16)), 4)
PrologueTemp(row) ==
    ShiftRight(Int16(BitOr(UInt16(row[2] * 256), BitAnd(row[3], 240))), 4)

\* channel
PrologueChannelThreeBits(row) == BitAnd(row[1], 7) + 1
PrologueChannel(row) == BitAnd(row[1], 3) + 1

\* what demod_print_bits_packet writes to stderr for the packet of q
demod_print_bits_packet(q) ==
    LET r0  == q.bits_buffer[0]
        r1  == q.bits_buffer[1]
        rid == BitOr(BitAnd(r1[0], 15) * 16, BitAnd(r1[1], 240) \div 16)
    IN  [ bits          |-> q.bits_buffer,
          hex           |-> [c \in Cols |-> Hex2(r1[c])],
          button        |-> IF BitAnd(r1[1], 4) # 0 THEN 1 ELSE 0,
          first_reading |-> IF BitAnd(r1[1], 8) # 0 THEN 0 ELSE 1,
          temp2         |-> TempText(PrologueTemp(r1)),
          channel       |-> PrologueChannel(r1),
          id            |-> BitAnd(r1[0], 240) \div 16,
          rid           |-> rid,
          hrid          |-> Hex2(rid),
          rid0          |-> r0[0],
          temp          |-> TempText(RubicsonTemp(r0)) ]

----------------------------------------------------------------------------
(* SpecPrint: demod_print_bits_packet on packets with chosen rows 0 and 1 *)

RowOf(b0, b1, b2, b3, b4) ==
    [c \in Cols |-> CASE c = 0 -> b0 [] c = 1 -> b1 [] c = 2 -> b2
                      [] c = 3 -> b3 [] OTHER -> b4]

\* the rows of the decoding scenarios
PrologueRowWarm == RowOf(149, 161, 0, 234, 204)
PrologueRowCold == RowOf(149, 160, 255, 206, 204)
RubicsonRow == RowOf(160, 7, 176, 0, 0)

\* row 1: every value of byte 1, and temperature bytes around the sign and
\* the nibble boundaries
TempHighBytes == { 0, 1, 14, 127, 128, 252, 255 }
TempLowBytes == { 0, 15, 16, 206, 224, 234, 255 }
PrintRows1 ==
    { RowOf(149, b, 0, 234, 204) : b \in 0 .. 255 }
        \cup { RowOf(149, 160, h, l, 204) : h \in TempHighBytes, l \in TempLowBytes }

\* row 0: temperature nibbles around the sign of the 12-bit field
PrintRows0 ==
    { RowOf(160, h, l, 0, 0) : h \in { 0, 7, 8, 15, 119, 248 }, l \in { 0, 123, 176, 255 } }

InitPrint ==
    /\ \E r0 \in PrintRows0, r1 \in PrintRows1 :
          p = [protocol_state(RUBICSON_SHORT, RUBICSON_LONG, RUBICSON_RESET)
                  EXCEPT !.bits_buffer = [r \in Rows |->
                            IF r = 0 THEN r0 ELSE IF r = 1 THEN r1
                            ELSE [c \in Cols |-> 0]]]
    /\ sample = 0
    /\ ev = NoEvent
    /\ sat = {}
    /\ quiet = 0
    /\ gap = NoGap
    /\ iq = NoIQ
    /\ flt = NoFilter
    /\ printed = NoPrint
    /\ NoCallback

\* the call at the reset of pwm_demod
PrintBitsPacket ==
    /\ printed = NoPrint
    /\ printed' = demod_print_bits_packet(p)
    /\ UNCHANGED <<demodvars, iq, flt, cbvars>>

\* the demod_reset_bits_packet that follows it
ResetAfterPrint ==
    /\ printed # NoPrint
    /\ p.bits_buffer # ZeroBuffer
    /\ p' = demod_reset_bits_packet(p)
    /\ UNCHANGED <<sample, ev, sat, quiet, gap, iq, flt, cbvars, printed>>

NextPrint == PrintBitsPacket \/ ResetAfterPrint

SpecPrint == InitPrint /\ [][NextPrint]_vars

Printed == printed # NoPrint
PrintedRow0(row) == printed # NoPrint /\ printed.bits[0] = row
PrintedRow1(row) == printed # NoPrint /\ printed.bits[1] = row

\* a byte read as a signed 8-bit value, and 12 bits as a signed value
Signed8(b) == IF b >= 128 THEN b - 256 ELSE b
Signed12(v) == IF v >= 2048 THEN v - 4096 ELSE v

(* C13 as stated: row 1 = 95 A1 00 EA CC prints channel 2, temp 23.4, id 9,
   rid 90, hrid 5a; row 1 = 95 A0 FF CE CC prints temp -5.0. *)
C13_Original ==
    /\ PrintedRow1(PrologueRowWarm) =>
          /\ printed.channel = 2
          /\ printed.temp2 = [neg |-> FALSE, int |-> 23, frac |-> 4]
          /\ printed.id = 9 /\ printed.rid = 90 /\ printed.hrid = <<5, 10>>
    /\ PrintedRow1(PrologueRowCold) =>
          printed.temp2 = [neg |-> TRUE, int |-> 5, frac |-> 0]

(* C13 amended: the Prologue temperature printed is ((byte2 << 8) |
   (byte3 & 0xF0)) as signed 16-bit shifted right by 4, that is
   16 * (byte2 as signed 8-bit) + (byte3 >> 4), in tenths; row 1 =
   95 A1 00 EA CC prints channel 2, temp 1.4, id 9, rid 90, hrid 5a, and
   row 1 = 95 A0 FF CE CC prints temp -0.4. *)
C13_PrologueDecode ==
    /\ Printed =>
          printed.temp2 = TempText(16 * Signed8(printed.bits[1][2])
                                       + (printed.bits[1][3] \div 16))
    /\ PrintedRow1(PrologueRowWarm) =>
          /\ printed.channel = 2
          /\ printed.temp2 = [neg |-> FALSE, int |-> 1, frac |-> 4]
          /\ printed.id = 9 /\ printed.rid = 90 /\ printed.hrid = <<5, 10>>
    /\ PrintedRow1(PrologueRowCold) =>
          printed.temp2 = [neg |-> TRUE, int |-> 0, frac |-> 4]

C13_Witness == PrintedRow1(PrologueRowCold) /\ printed.temp2.neg

(* C14 as stated: the Rubicson temperature is the 12-bit signed value in bits
   [12..24) of row 0 and the ID is the upper nibble of byte 0; row 0 =
   A0 07 B0 00 00 decodes to 123 tenths, printed as temp 12.3 with id 0xA. *)
C14_Original ==
    PrintedRow0(RubicsonRow) =>
        /\ printed.temp = [neg |-> FALSE, int |-> 12, frac |-> 3]
        /\ printed.rid0 = 10

(* C14 amended: the Rubicson temperature printed is the 12-bit signed
   big-endian value in bits [12..24) of row 0 (low nibble of byte 1, then
   byte 2), in tenths, and the id printed is the whole byte 0; row 0 =
   A0 07 B0 00 00 decodes to 1968 tenths, printed as temp 196.8 with
   rid a0. *)
C14_RubicsonDecode ==
    /\ Printed =>
          /\ printed.temp = TempText(Signed12((printed.bits[0][1] % 16) * 256
                                                  + printed.bits[0][2]))
          /\ printed.rid0 = printed.bits[0][0]
    /\ PrintedRow0(RubicsonRow) =>
          /\ printed.temp = [neg |-> FALSE, int |-> 196, frac |-> 8]
          /\ printed.rid0 = 160

C14_Witness == PrintedRow0(RubicsonRow) /\ printed.temp.int = 196

----------------------------------------------------------------------------
(* SpecPair: the decoding branch of rtlsdr_callback, both protocol instances
   over the same filtered blocks, for any samples around the level *)

\* Longest filtered block and number of samples fed in all.
MaxPairBlock == 2
MaxPairSamples == 8

PairBlocks == UNION { [1 .. n -> SampleValues] : n \in 1 .. MaxPairBlock }

\* the two instances of a dm_state
Instances(d) == [ prologue |-> d.prologue, rubicson |-> d.rubicson ]

InitPair ==
    /\ p = protocol_state(ShortLimit, LongLimit, ResetLimit)
    /\ sample = 0
    /\ ev = NoEvent
    /\ sat = {}
    /\ quiet = 0
    /\ gap = NoGap
    /\ iq = NoIQ
    /\ flt = NoFilter
    /\ printed = NoPrint
    /\ demod = [ level_limit |-> LevelLimit, analyze |-> 0, f_buf |-> <<>>,
                 rubicson |-> protocol_state(ShortLimit, LongLimit, ResetLimit),
                 prologue |-> protocol_state(LongLimit, 2 * LongLimit,
                                             3 * ResetLimit) ]
    /\ glob = <<>>
    /\ out = <<>>
    /\ call = [ before |-> demod, mid |-> demod, plog |-> <<>>, rlog |-> <<>>,
                plog_alone |-> <<>>, rlog_alone |-> <<>> ]
    /\ run = [ n |-> 0, alone |-> Instances(demod), swapped |-> Instances(demod) ]

\* lines 456-460 on the filtered block fb: pwm_demod for prologue, then for
\* rubicson. run.alone follows each instance fed the same blocks without the
\* other one, run.swapped the two calls made in the other order.
DecodeBlock(fb) ==
    LET n    == Len(fb)
        d0   == [demod EXCEPT !.f_buf = fb]
        pro  == pwm_demod_of(d0, "prologue", fb, n)
        rub  == pwm_demod_of(pro.d, "rubicson", fb, n)
        rub1 == pwm_demod_of(d0, "rubicson", fb, n)
        pro1 == pwm_demod_of(rub1.d, "prologue", fb, n)
        ap   == pwm_demod(run.alone.prologue, fb, n, demod.level_limit)
        ar   == pwm_demod(run.alone.rubicson, fb, n, demod.level_limit)
    IN  /\ run.n + n <= MaxPairSamples
        /\ demod' = rub.d
        /\ call' = [ before |-> d0, mid |-> pro.d,
                     plog |-> pro.log, rlog |-> rub.log,
                     plog_alone |-> ap.log, rlog_alone |-> ar.log ]
        /\ run' = [ n |-> run.n + n,
                    alone |-> [ prologue |-> ap.q, rubicson |-> ar.q ],
                    swapped |-> Instances(pro1.d) ]
        /\ UNCHANGED <<demodvars, iq, flt, glob, out, printed>>

NextPair == \E fb \in PairBlocks : DecodeBlock(fb)

SpecPair == InitPair /\ [][NextPair]_vars

(* C20: the two protocol instances are independent: pwm_demod for one
   protocol changes only that protocol's state and bit packet and leaves the
   other instance, the limits and the filtered block as they were; what each
   instance produces (bits, row advances, resets) and its state are the same
   as when it is fed the same stream without the other, and the same in
   either order of the two calls. *)
C20_InstancesIndependent ==
    /\ call.mid = [call.before EXCEPT !.prologue = call.mid.prologue]
    /\ demod = [call.mid EXCEPT !.rubicson = demod.rubicson]
    /\ demod.f_buf = call.before.f_buf
    /\ \A name \in { "prologue", "rubicson" } :
          /\ demod[name].short_limit = call.before[name].short_limit
          /\ demod[name].long_limit = call.before[name].long_limit
          /\ demod[name].reset_limit = call.before[name].reset_limit
    /\ Instances(demod) = run.alone
    /\ call.plog = call.plog_alone
    /\ call.rlog = call.rlog_alone
    /\ Instances(demod) = run.swapped

\* one block whose gap is a 0 for Prologue and a 1 for Rubicson
C20_Witness ==
    /\ run.n > 0
    /\ call.plog = << <<"add_bit", 0>> >>
    /\ call.rlog = << <<"add_bit", 1>> >>
    /\ demod.prologue.bits_buffer # demod.rubicson.bits_buffer

----------------------------------------------------------------------------
(* SpecAnalyze: the analyzer branch of rtlsdr_callback, pwm_analyze over
   consecutive filtered blocks, for any samples around the level *)

\* Longest filtered block and number of samples fed in all.
MaxAnalyzeBlock == 2
MaxAnalyzeSamples == 7

AnalyzeBlocks == UNION { [1 .. n -> SampleValues] : n \in 1 .. MaxAnalyzeBlock }

InitAnalyze ==
    /\ p = protocol_state(ShortLimit, LongLimit, ResetLimit)
    /\ sample = 0
    /\ ev = NoEvent
    /\ sat = {}
    /\ quiet = 0
    /\ gap = NoGap
    /\ iq = NoIQ
    /\ flt = NoFilter
    /\ printed = NoPrint
    /\ demod = [ level_limit |-> LevelLimit, analyze |-> 1 ]
    /\ glob = [ an |-> analyzer_state ]
    /\ out = <<>>
    /\ call = [ fb |-> <<>>, alog |-> <<>> ]
    /\ run = [ n |-> 0, log |-> <<>> ]

\* line 455 on the filtered block fb; run.log is all the analyzer has
\* written so far
AnalyzeBlock(fb) ==
    LET r == pwm_analyze(glob.an, fb, Len(fb), demod.level_limit)
    IN  /\ run.n + Len(fb) <= MaxAnalyzeSamples
        /\ glob' = [glob EXCEPT !.an = r.g]
        /\ call' = [ fb |-> fb, alog |-> r.log ]
        /\ run' = [ n |-> run.n + Len(fb), log |-> run.log \o r.log ]
        /\ UNCHANGED <<demodvars, iq, flt, demod, out, printed>>

NextAnalyze == \E fb \in AnalyzeBlocks : AnalyzeBlock(fb)

SpecAnalyze == InitAnalyze /\ [][NextAnalyze]_vars

\* how many samples of the block satisfy a test, entries of a log equal e
CountAbove(fb) == Cardinality({ i \in 1 .. Len(fb) : fb[i] > LevelLimit })
CountBelow(fb) == Cardinality({ i \in 1 .. Len(fb) : fb[i] < LevelLimit })
CountOf(log, e) == Cardinality({ i \in 1 .. Len(log) : log[i] = e })

(* C21: in analyzer mode, over any samples and across block boundaries,
   pwm_analyze writes pulse_start and pulse_end in strict alternation
   beginning with pulse_start; a pulse_start only on a sample strictly above
   level_limit, a pulse_end only on a sample strictly below it and only
   after an unmatched pulse_start; pulses_found >= 1 at every pulse_end. *)
C21_AnalyzerAlternation ==
    /\ \A i \in 1 .. Len(run.log) :
          run.log[i] = (IF i % 2 = 1 THEN "pulse_start" ELSE "pulse_end")
    /\ CountOf(call.alog, "pulse_start") <= CountAbove(call.fb)
    /\ CountOf(call.alog, "pulse_end") <= CountBelow(call.fb)
    /\ glob.an.pulses_found = CountOf(run.log, "pulse_start")
    /\ CountOf(run.log, "pulse_end") > 0 => glob.an.pulses_found >= 1
    /\ glob.an.print2 = (IF Len(run.log) % 2 = 1 THEN 1 ELSE 0)

\* two whole pulses, the second ending in a later block than it began
C21_Witness ==
    /\ run.log = << "pulse_start", "pulse_end", "pulse_start", "pulse_end" >>
    /\ call.alog = << "pulse_end" >>
    /\ glob.an.pulses_found = 2

----------------------------------------------------------------------------
(* SpecStream: low_pass_filter from zero history on block after block of
   silence and strongest carrier, for as long as new histories appear *)

\* the blocks: two envelope samples, each 0 or 32768; the history a call
\* leaves is that of its first sample, so the calls walk every stream of
\* these samples one sample at a time
StreamBlocks == [1 .. 2 -> XValues]

\* the accumulator of each output sample of a call
FilterAccs(x_buf, len, xmem, yhist, ys) ==
    [ i \in 1 .. len |->
        Accumulator(IF i = 1 THEN yhist ELSE ys[i - 1],
                    x_buf[i],
                    IF i = 1 THEN xmem ELSE x_buf[i - 1]) ]

InitStream ==
    /\ p = protocol_state(ShortLimit, LongLimit, ResetLimit)
    /\ sample = 0
    /\ ev = NoEvent
    /\ sat = {}
    /\ quiet = 0
    /\ gap = NoGap
    /\ iq = NoIQ
    /\ flt = [ xmem |-> 0, yhist |-> 0, xs |-> <<>>, ys |-> <<>>, accs |-> <<>> ]
    /\ printed = NoPrint
    /\ NoCallback

FilterNext(x_buf) ==
    LET r == low_pass_filter(x_buf, Len(x_buf), flt.xmem, flt.yhist, 0, TRUE)
    IN  /\ flt' = [ xmem  |-> r.xmem,
                    yhist |-> r.yhist,
                    xs    |-> x_buf,
                    ys    |-> r.ys,
                    accs  |-> FilterAccs(x_buf, Len(x_buf), flt.xmem, flt.yhist, r.ys) ]
        /\ UNCHANGED <<demodvars, iq, cbvars, printed>>

NextStream == \E x_buf \in StreamBlocks : FilterNext(x_buf)

SpecStream == InitStream /\ [][NextStream]_vars

\* the largest value of a signed 32-bit int
INT_MAX == 2147483647

(* C23: from zero history, for envelope inputs in 0..32768, the accumulator
   (a1*y[n-1]>>1) + (b0*x[n]>>1) + (b1*x[n-1]>>1) of low_pass_filter stays
   within a signed 32-bit int and every output y[n] is within 0..32767, so
   that storing it as int16_t does not wrap. *)
C23_FilterNoOverflow ==
    /\ flt.yhist \in 0 .. 32767
    /\ \A i \in 1 .. Len(flt.ys) :
          /\ flt.accs[i] >= 0
          /\ flt.accs[i] <= INT_MAX
          /\ flt.ys[i] \in 0 .. 32767
          /\ flt.ys[i] = ShiftRight(flt.accs[i], F_SCALE - 1)

\* the output after a long carrier, at the level where it settles
C23_Witness ==
    /\ flt.xs = << 32768, 32768 >>
    /\ flt.xmem = 32768
    /\ flt.ys[2] = flt.ys[1]
    /\ flt.ys[2] > 32000

====
